---- MODULE Spec2Model ----
(***************************************************************************)
(* Transcript highlighter for HTML5 <audio> + WebVTT (src/script.js).      *)
(*                                                                         *)
(* One page holds NumCards cards.  Every handler of the script runs to     *)
(* completion on the browser's event loop, so each handler is one action.  *)
(* Times are integers in hundredths of a second (5 s = 500, 0.01 s = 1);   *)
(* layout lengths are integers in px.                                      *)
(***************************************************************************)
EXTENDS Integers, Sequences, FiniteSets, TLC

(***************************** bounds **************************************)
NumCards == 3      \* cards on the page
MaxCues == 3       \* cues in a card's .vtt file
MaxActive == 2     \* simultaneously active cues the track reports
MaxTime == 1500    \* playback positions explored (hundredths of a second)

(************************* program constants *******************************)
maxAttempts == 20      \* const maxAttempts = 20
paddingTop == 20       \* const paddingTop = 20
paddingBottom == 30    \* const paddingBottom = 30
jumpStep == 500        \* audio.currentTime -/+ 5
nudge == 1             \* cue.startTime + 0.01
NaN == -1              \* audio.duration while the duration is unknown

Cards == 1..NumCards
CueIds == 1..MaxCues
NoCue == 0             \* null

Min(a, b) == IF a < b THEN a ELSE b
Max(a, b) == IF a > b THEN a ELSE b
Range(s) == {s[i] : i \in 1..Len(s)}

(************************ the page and its cue files ***********************)
\* The cue at position i of the .vtt file.  Cue identities are not their
\* positions: the first cue of the file is the cue MaxCues.
CueAt(i) == MaxCues + 1 - i
VttCues == [i \in 1..MaxCues |-> CueAt(i)]

\* cue.startTime and cue.text.  Positions 2 and 3 hold two distinct cues
\* with the same start time and the same text.
startTime(cue) == 500 * ((MaxCues + 1 - cue) \div 2)
text(cue) == <<"cue text", (MaxCues + 1 - cue) \div 2>>

\* Layout of the transcript container: its client rectangle, the inset of
\* its content box (its CSS padding), and the rendered height of the line
\* of a cue.  With the inset Padded every offset the script writes to
\* scrollTop lies within the scrollable range; with the inset Flush the
\* first line starts at the very top of the scrollable content and the
\* last line ends at its very bottom.
parentRect == [top |-> 100, bottom |-> 180]
Padded == [top |-> 20, bottom |-> 30]
Flush == [top |-> 0, bottom |-> 0]
lineHeight(cue) == IF cue = 1 THEN 60 ELSE 30

Durations == {NaN, 0, 1000}
Keys == {"Enter", " ", "Tab", "Escape"}
ButtonActions == {"jump-back", "jump-forward", "mute"}

\* What the page provides for card c: card 1 is complete, card 2 has no
\* caption track, card 3 has no audio element, any further card has no
\* transcript container.
CardCfg(c, d, k, dur) ==
  [audio      |-> c # 3,
   transcript |-> c < 4,
   track      |-> c = 1,
   details    |-> IF c = 1 THEN d ELSE FALSE,
   checkbox   |-> IF c = 1 THEN k ELSE FALSE,
   duration   |-> IF c = 1 THEN dur ELSE NaN,
   inset      |-> Padded,
   open       |-> FALSE,
   checked    |-> FALSE]
Page(d, k, dur) == [c \in Cards |-> CardCfg(c, d, k, dur)]

\* A page whose first two cards are both complete, their wrappers
\* delivered expanded (<details open>) and their checkboxes ticked.
PageTwin ==
  [c \in Cards |->
     IF c <= 2
       THEN [CardCfg(1, TRUE, TRUE, 1000) EXCEPT !.open = TRUE, !.checked = TRUE]
       ELSE CardCfg(c, TRUE, TRUE, 1000)]

\* A page whose second card lacks the audio element (a = FALSE), the
\* transcript container (t = FALSE) or both; its audio element, if there,
\* has a caption track.  The first card is complete.
PageMissing(a, t) ==
  [c \in Cards |->
     IF c = 2
       THEN [CardCfg(1, TRUE, TRUE, 1000) EXCEPT !.audio = a, !.transcript = t, !.track = a]
       ELSE CardCfg(c, TRUE, TRUE, 1000)]

\* The page Page(TRUE, TRUE, dur) with the transcript of card 1 laid out
\* with the inset pad.
PageLaidOut(pad, dur) ==
  [c \in Cards |-> [CardCfg(c, TRUE, TRUE, dur) EXCEPT !.inset = IF c = 1 THEN pad ELSE @]]

VARIABLES
  loaded,       \* DOMContentLoaded has been handled
  cfg,          \* the page: what each card provides (never changes)
  fmt,          \* the last call of formatTime: its argument and its result
  content,      \* transcriptEl.innerHTML apart from the line elements
  trackMode,    \* track.mode
  trackCues,    \* track.cues, a sequence of cue identities
  activeCues,   \* track.activeCues
  lines,        \* the lines array: the rendered line elements, in order
  cueToLine,    \* the Map from cue identity to (the index of) its line
  attempts,     \* let attempts
  timer,        \* the polling timer: "none", "running" or "cleared"
  listeners,    \* the listeners setupCard registered
  detailsOpen,  \* details.open
  autoScroll,   \* autoScrollCheckbox.checked
  scrollTop,    \* transcriptEl.scrollTop
  currentTime,  \* audio.currentTime
  playState,    \* "paused", "requested" (play() pending), "playing", "rejected"
  errors,       \* errors surfaced by the handlers (uncaught rejections)
  renderLog,    \* history: one record per render pass (tick, cues read)
  sawCuesAt     \* history: the first tick that found cue data (0: none yet)

vars == <<loaded, cfg, fmt, content, trackMode, trackCues, activeCues, lines,
          cueToLine, attempts, timer, listeners, detailsOpen, autoScroll,
          scrollTop, currentTime, playState, errors, renderLog, sawCuesAt>>

pollVars == <<content, lines, cueToLine, attempts, timer, renderLog, sawCuesAt>>
audioVars == <<currentTime, playState, errors>>
viewVars == <<detailsOpen, autoScroll, scrollTop>>

(******************************* formatTime ********************************)
Digit == <<"0", "1", "2", "3", "4", "5", "6", "7", "8", "9">>

\* String(n) for a non-negative integer n, as a sequence of characters.
RECURSIVE String(_)
String(n) == IF n < 10 THEN <<Digit[n + 1]>>
             ELSE String(n \div 10) \o <<Digit[(n % 10) + 1]>>

\* str.padStart(n, ch): pads on the left up to length n, never truncates.
RECURSIVE padStart(_, _, _)
padStart(str, n, ch) == IF Len(str) >= n THEN str ELSE padStart(<<ch>> \o str, n, ch)

\* Mutant of formatTime: the seconds are rounded, not floored.
formatTimeRounded(seconds) ==
  LET s == Max(0, seconds)
      m == s \div 6000
      r == ((s % 6000) + 50) \div 100
  IN  padStart(String(m), 2, "0") \o <<":">> \o padStart(String(r), 2, "0")

\* formatTime(seconds), for a number of hundredths of a second.
formatTime(seconds) ==
  LET s == Max(0, seconds)
      m == s \div 6000
      r == (s % 6000) \div 100
  IN  padStart(String(m), 2, "0") \o <<":">> \o padStart(String(r), 2, "0")

\* An argument of formatTime: a number (in hundredths of a second), NaN or
\* undefined.
Number(n) == [kind |-> "number", cs |-> n]
NotANumber == [kind |-> "NaN", cs |-> 0]
Undefined == [kind |-> "undefined", cs |-> 0]

\* seconds || 0: NaN and undefined are falsy (and so is the number 0).
orZero(x) == IF x.kind = "number" THEN x.cs ELSE 0

\* formatTime(x) for any argument x.
formatTimeArg(x) == formatTime(orZero(x))

MaxFormat == 300   \* number inputs of formatTime explored by SpecFormat

\* The arguments explored: negative numbers, 125.7 s, the last hundredth
\* before and the first at 100 minutes, and a grid of steps of 23.57 s that
\* runs past 100 minutes.
FormatInputs ==
  {Number(n) : n \in {-500, -1, 12570, 599999, 600000}}
    \cup {Number(i * 2357) : i \in 0..MaxFormat}
    \cup {NotANumber, Undefined}

NotCalled == [arg |-> Undefined, result |-> <<>>]

\* One call formatTime(x).
Format(x) ==
  /\ fmt' = [arg |-> x, result |-> formatTimeArg(x)]
  /\ UNCHANGED <<loaded, cfg, content, trackMode, trackCues, activeCues, lines,
                 cueToLine, attempts, timer, listeners, detailsOpen, autoScroll,
                 scrollTop, currentTime, playState, errors, renderLog, sawCuesAt>>

(******************************* setupCard *********************************)
Untouched == "initial"   \* the transcript container as the page delivered it
Warning == "<p>No WebVTT track found. Add a .vtt file and a &lt;track&gt; tag.</p>"
Loading == "<p>Loading transcript... If it never loads, check your .vtt path and formatting.</p>"
Cleared == ""

EmptyMap == [q \in {} |-> 0]

\* Mutant of setupCard: no return after the warning is written.
setupCardNoReturn(c) ==
  IF ~cfg[c].audio \/ ~cfg[c].transcript
    THEN [content |-> content[c], trackMode |-> trackMode[c],
          timer |-> "none", listeners |-> {}]
  ELSE [content |-> IF cfg[c].track THEN content[c] ELSE Warning,
        trackMode |-> "hidden",
        timer |-> "running", listeners |-> {"cuechange", "button"}]

\* Mutant of setupCard: the button listeners are registered before the
\* track is looked up.
setupCardButtonsFirst(c) ==
  IF ~cfg[c].audio \/ ~cfg[c].transcript
    THEN [content |-> content[c], trackMode |-> trackMode[c],
          timer |-> "none", listeners |-> {}]
  ELSE IF ~cfg[c].track
    THEN [content |-> Warning, trackMode |-> trackMode[c],
          timer |-> "none", listeners |-> {"button"}]
  ELSE [content |-> content[c], trackMode |-> "hidden",
        timer |-> "running", listeners |-> {"cuechange", "button"}]

\* Mutant of setupCard: only the transcript container is required.
setupCardAudioUnchecked(c) ==
  IF ~cfg[c].transcript
    THEN [content |-> content[c], trackMode |-> trackMode[c],
          timer |-> "none", listeners |-> {}]
  ELSE IF ~cfg[c].audio \/ ~cfg[c].track
    THEN [content |-> Warning, trackMode |-> trackMode[c],
          timer |-> "none", listeners |-> {}]
  ELSE [content |-> content[c], trackMode |-> "hidden",
        timer |-> "running", listeners |-> {"cuechange", "button"}]

\* setupCard(card): what it leaves behind for card c.
setupCard(c) ==
  IF ~cfg[c].audio \/ ~cfg[c].transcript
    THEN [content |-> content[c], trackMode |-> trackMode[c],
          timer |-> "none", listeners |-> {}]
  ELSE IF ~cfg[c].track
    THEN [content |-> Warning, trackMode |-> trackMode[c],
          timer |-> "none", listeners |-> {}]
  ELSE [content |-> content[c], trackMode |-> "hidden",
        timer |-> "running", listeners |-> {"cuechange", "button"}]

\* document.addEventListener("DOMContentLoaded", ...): every card is set up.
DOMContentLoaded ==
  /\ ~loaded
  /\ loaded' = TRUE
  /\ content' = [c \in Cards |-> setupCard(c).content]
  /\ trackMode' = [c \in Cards |-> setupCard(c).trackMode]
  /\ timer' = [c \in Cards |-> setupCard(c).timer]
  /\ listeners' = [c \in Cards |-> setupCard(c).listeners]
  /\ UNCHANGED <<cfg, fmt, trackCues, activeCues, lines, cueToLine, attempts,
                 renderLog, sawCuesAt>>
  /\ UNCHANGED viewVars
  /\ UNCHANGED audioVars

(***************************** renderFromCues ******************************)
\* The line element renderFromCues builds for the cue at index idx.
\* Mutant of Line: the first line is rendered already marked.
LineMarked(cue, idx) ==
  [idx    |-> idx,
   time   |-> formatTime(startTime(cue)),
   text   |-> text(cue),
   cue    |-> cue,
   active |-> idx = 0]

Line(cue, idx) ==
  [idx    |-> idx,
   time   |-> formatTime(startTime(cue)),
   text   |-> text(cue),
   cue    |-> cue,
   active |-> FALSE]

\* Mutant of renderFromCues: the Map is keyed by data-idx, not by the cue.
renderFromCuesByIdx(cues) ==
  IF Len(cues) = 0
    THEN [content |-> Loading, lines |-> <<>>, cueToLine |-> EmptyMap]
    ELSE [content |-> Cleared,
          lines |-> [i \in 1..Len(cues) |-> Line(cues[i], i - 1)],
          cueToLine |-> [q \in 0..(Len(cues) - 1) |-> q + 1]]

\* Mutant of renderFromCues: an empty cue list renders as an empty
\* transcript, without the placeholder.
renderFromCuesNoPlaceholder(cues) ==
  IF Len(cues) = 0
    THEN [content |-> Cleared, lines |-> <<>>, cueToLine |-> EmptyMap]
    ELSE [content |-> Cleared,
          lines |-> [i \in 1..Len(cues) |-> Line(cues[i], i - 1)],
          cueToLine |-> [q \in Range(cues) |->
                           CHOOSE i \in 1..Len(cues) :
                             /\ cues[i] = q
                             /\ \A j \in (i + 1)..Len(cues) : cues[j] # q]]

\* renderFromCues(), reading `cues` from track.cues: the new transcript
\* content, lines array and cue-to-line Map.
renderFromCues(cues) ==
  IF Len(cues) = 0
    THEN [content |-> Loading, lines |-> <<>>, cueToLine |-> EmptyMap]
    ELSE [content |-> Cleared,
          lines |-> [i \in 1..Len(cues) |-> Line(cues[i], i - 1)],
          cueToLine |-> [q \in Range(cues) |->
                           CHOOSE i \in 1..Len(cues) :
                             /\ cues[i] = q
                             /\ \A j \in (i + 1)..Len(cues) : cues[j] # q]]

(***************************** polling timer *******************************)
\* Mutant of pollTick: the success branch renders without clearInterval.
pollTickNoClear(att, cues) ==
  LET a == att + 1 IN
  IF Len(cues) > 0 THEN [attempts |-> a, clear |-> FALSE, render |-> TRUE]
  ELSE IF a >= maxAttempts THEN [attempts |-> a, clear |-> TRUE, render |-> TRUE]
  ELSE [attempts |-> a, clear |-> FALSE, render |-> FALSE]

\* Mutant of pollTick: the bound is tested with > instead of >=.
pollTickLate(att, cues) ==
  LET a == att + 1 IN
  IF Len(cues) > 0 THEN [attempts |-> a, clear |-> TRUE, render |-> TRUE]
  ELSE IF a > maxAttempts THEN [attempts |-> a, clear |-> TRUE, render |-> TRUE]
  ELSE [attempts |-> a, clear |-> FALSE, render |-> FALSE]

\* Mutant of pollTick: the 20th tick renders but leaves the timer running.
pollTickKeepsPolling(att, cues) ==
  LET a == att + 1 IN
  IF Len(cues) > 0 THEN [attempts |-> a, clear |-> TRUE, render |-> TRUE]
  ELSE IF a >= maxAttempts THEN [attempts |-> maxAttempts, clear |-> FALSE, render |-> TRUE]
  ELSE [attempts |-> a, clear |-> FALSE, render |-> FALSE]

\* One run of the setInterval callback with `att` attempts so far.
pollTick(att, cues) ==
  LET a == att + 1 IN
  IF Len(cues) > 0 THEN [attempts |-> a, clear |-> TRUE, render |-> TRUE]
  ELSE IF a >= maxAttempts THEN [attempts |-> a, clear |-> TRUE, render |-> TRUE]
  ELSE [attempts |-> a, clear |-> FALSE, render |-> FALSE]

Tick(c) ==
  /\ timer[c] = "running"
  /\ LET t == pollTick(attempts[c], trackCues[c])
         r == renderFromCues(trackCues[c])
     IN  /\ attempts' = [attempts EXCEPT ![c] = t.attempts]
         /\ timer' = [timer EXCEPT ![c] = IF t.clear THEN "cleared" ELSE @]
         /\ content' = [content EXCEPT ![c] = IF t.render THEN r.content ELSE @]
         /\ lines' = [lines EXCEPT ![c] = IF t.render THEN r.lines ELSE @]
         /\ cueToLine' = [cueToLine EXCEPT ![c] = IF t.render THEN r.cueToLine ELSE @]
         /\ renderLog' = [renderLog EXCEPT ![c] =
              IF t.render THEN Append(@, [tick |-> t.attempts, cues |-> trackCues[c]])
              ELSE @]
         /\ sawCuesAt' = [sawCuesAt EXCEPT ![c] =
              IF @ = 0 /\ Len(trackCues[c]) > 0 THEN attempts[c] + 1 ELSE @]
  /\ UNCHANGED <<loaded, cfg, fmt, trackMode, trackCues, activeCues, listeners>>
  /\ UNCHANGED viewVars
  /\ UNCHANGED audioVars

\* The browser's caption engine delivers cues of the card's .vtt file: the
\* track's cue list grows to the first n cues of the file.
CueArrive(c, n) ==
  /\ cfg[c].audio /\ cfg[c].track
  /\ n > Len(trackCues[c])
  /\ trackCues' = [trackCues EXCEPT ![c] = SubSeq(VttCues, 1, n)]
  /\ UNCHANGED <<loaded, cfg, fmt, trackMode, activeCues, listeners>>
  /\ UNCHANGED pollVars
  /\ UNCHANGED viewVars
  /\ UNCHANGED audioVars

(************************ clearActive / setActiveCue ***********************)
\* Mutant of clearActive: no marking is removed.
clearActiveNone(ls) == ls

clearActive(ls) == [i \in 1..Len(ls) |-> [ls[i] EXCEPT !.active = FALSE]]

\* Mutant of doScroll: the checkbox is not consulted.
doScrollNoCheckbox(c) == cfg[c].details /\ detailsOpen[c]

\* const doScroll = details && details.open && autoScrollCheckbox && ...checked
doScroll(c) ==
  cfg[c].details /\ detailsOpen[c] /\ cfg[c].checkbox /\ autoScroll[c]

\* Distance from the top of the content box to the top of line i.
RECURSIVE lineOffset(_, _)
lineOffset(ls, i) ==
  IF i <= 1 THEN 0 ELSE lineOffset(ls, i - 1) + lineHeight(ls[i - 1].cue)

\* line.getBoundingClientRect() of line i of card c with the container
\* scrolled to st.
lineRect(c, ls, i, st) ==
  LET top == parentRect.top + cfg[c].inset.top + lineOffset(ls, i) - st
  IN  [top |-> top, bottom |-> top + lineHeight(ls[i].cue)]

\* Height of the transcript's content and the largest scroll offset.
contentHeight(c, ls) ==
  IF Len(ls) = 0 THEN 0
  ELSE cfg[c].inset.top + lineOffset(ls, Len(ls) + 1) + cfg[c].inset.bottom
maxScroll(c, ls) ==
  Max(0, contentHeight(c, ls) - (parentRect.bottom - parentRect.top))

\* parent.scrollTop = v: the browser limits the offset to the scrollable
\* range of the container.
setScrollTop(c, ls, v) == Max(0, Min(maxScroll(c, ls), v))

\* Mutant of scrollDelta: the bottom edge is tested before the top edge.
scrollDeltaBottomFirst(c, ls, i, st) ==
  LET r == lineRect(c, ls, i, st) IN
  IF r.bottom > parentRect.bottom - paddingBottom
    THEN r.bottom - (parentRect.bottom - paddingBottom)
  ELSE IF r.top < parentRect.top + paddingTop
    THEN r.top - (parentRect.top + paddingTop)
  ELSE 0

\* Mutant of scrollDelta: the line is aligned to the container's own edges.
scrollDeltaNoPadding(c, ls, i, st) ==
  LET r == lineRect(c, ls, i, st) IN
  IF r.top < parentRect.top
    THEN r.top - parentRect.top
  ELSE IF r.bottom > parentRect.bottom
    THEN r.bottom - parentRect.bottom
  ELSE 0

\* The delta the doScroll block adds to parent.scrollTop.
scrollDelta(c, ls, i, st) ==
  LET r == lineRect(c, ls, i, st) IN
  IF r.top < parentRect.top + paddingTop
    THEN r.top - (parentRect.top + paddingTop)
  ELSE IF r.bottom > parentRect.bottom - paddingBottom
    THEN r.bottom - (parentRect.bottom - paddingBottom)
  ELSE 0

\* setActiveCue(cue) on card c: the lines array and scroll offset it leaves.
setActiveCue(c, cue) ==
  IF cue = NoCue
    THEN [lines |-> lines[c], scrollTop |-> scrollTop[c]]
  ELSE LET cleared == clearActive(lines[c]) IN
    IF cue \notin DOMAIN cueToLine[c]
      THEN [lines |-> cleared, scrollTop |-> scrollTop[c]]
    ELSE LET i == cueToLine[c][cue]
             marked == [cleared EXCEPT ![i].active = TRUE]
         IN  [lines |-> marked,
              scrollTop |-> IF doScroll(c)
                              THEN setScrollTop(c, marked,
                                     scrollTop[c] + scrollDelta(c, marked, i, scrollTop[c]))
                              ELSE scrollTop[c]]

\* Mutant of firstActive: the last active cue is taken.
lastActive(ac) == IF Len(ac) > 0 THEN ac[Len(ac)] ELSE NoCue

\* track.activeCues && track.activeCues.length ? track.activeCues[0] : null
firstActive(ac) == IF Len(ac) > 0 THEN ac[1] ELSE NoCue

\* The lists of active cues a track holding `cues` can report: up to
\* MaxActive of its cues, in track order.
RECURSIVE SubLists(_, _)
SubLists(cues, k) ==
  IF k = 0 \/ Len(cues) = 0 THEN {<<>>}
  ELSE SubLists(Tail(cues), k)
         \cup {<<Head(cues)>> \o s : s \in SubLists(Tail(cues), k - 1)}
ActiveLists(cues) == SubLists(cues, MaxActive)

\* The track's set of active cues changes to ac and the cuechange event is
\* dispatched; the listener runs if setupCard registered it.
CueChange(c, ac) ==
  /\ cfg[c].audio /\ cfg[c].track
  /\ ac \in ActiveLists(trackCues[c])
  /\ activeCues' = [activeCues EXCEPT ![c] = ac]
  /\ LET r == setActiveCue(c, firstActive(ac)) IN
     IF "cuechange" \in listeners[c]
       THEN /\ lines' = [lines EXCEPT ![c] = r.lines]
            /\ scrollTop' = [scrollTop EXCEPT ![c] = r.scrollTop]
       ELSE UNCHANGED <<lines, scrollTop>>
  /\ UNCHANGED <<loaded, cfg, fmt, content, trackMode, trackCues, cueToLine,
                 attempts, timer, listeners, detailsOpen, autoScroll,
                 renderLog, sawCuesAt>>
  /\ UNCHANGED audioVars

(************************** the user and the view **************************)
\* The user opens or closes the collapsible wrapper.
ToggleDetails(c) ==
  /\ cfg[c].details
  /\ detailsOpen' = [detailsOpen EXCEPT ![c] = ~@]
  /\ UNCHANGED <<loaded, cfg, fmt, trackMode, trackCues, activeCues, listeners,
                 autoScroll, scrollTop>>
  /\ UNCHANGED pollVars
  /\ UNCHANGED audioVars

\* The user ticks or unticks the auto-scroll checkbox.
ToggleAutoScroll(c) ==
  /\ cfg[c].checkbox
  /\ autoScroll' = [autoScroll EXCEPT ![c] = ~@]
  /\ UNCHANGED <<loaded, cfg, fmt, trackMode, trackCues, activeCues, listeners,
                 detailsOpen, scrollTop>>
  /\ UNCHANGED pollVars
  /\ UNCHANGED audioVars

\* The offsets the user scrolls to: the ends of the scrollable range and
\* two offsets in between.
ScrollStops(c, ls) ==
  {0, maxScroll(c, ls) \div 2, (5 * maxScroll(c, ls)) \div 6, maxScroll(c, ls)}

\* The user scrolls the transcript container by hand.
UserScroll(c, s) ==
  /\ cfg[c].transcript
  /\ s \in ScrollStops(c, lines[c])
  /\ s # scrollTop[c]
  /\ scrollTop' = [scrollTop EXCEPT ![c] = s]
  /\ UNCHANGED <<loaded, cfg, fmt, trackMode, trackCues, activeCues, listeners,
                 detailsOpen, autoScroll>>
  /\ UNCHANGED pollVars
  /\ UNCHANGED audioVars

(************************ line activation (jump) ***************************)
\* Mutant of jumpTarget: the nudge is left out.
jumpTargetNoNudge(cue) == startTime(cue)

\* The position jump() assigns to audio.currentTime for a line's cue.
jumpTarget(cue) == startTime(cue) + nudge

\* audio.play(): a resume request is pending unless the audio is playing.
play(st) == IF st = "playing" THEN "playing" ELSE "requested"

\* The errors surfaced once a play() promise is rejected:
\* .catch(() => {}) discards the rejection.
onPlayRejected(errs) == errs

\* keydown listener: if (e.key === "Enter" || e.key === " ")
activates(key) == key = "Enter" \/ key = " "

\* Mutant of jump: the audio element is looked up in the document, not in
\* the card, so every card drives the audio of the first card.
jumpFirstAudio(c, i) ==
  /\ currentTime' = [currentTime EXCEPT ![1] = jumpTarget(lines[c][i].cue)]
  /\ playState' = [playState EXCEPT ![1] = play(@)]
  /\ UNCHANGED errors

jump(c, i) ==
  /\ currentTime' = [currentTime EXCEPT ![c] = jumpTarget(lines[c][i].cue)]
  /\ playState' = [playState EXCEPT ![c] = play(@)]
  /\ UNCHANGED errors

\* div.addEventListener("click", jump) on line i of card c.
LineClick(c, i) ==
  /\ i \in 1..Len(lines[c])
  /\ jump(c, i)
  /\ UNCHANGED <<loaded, cfg, fmt, trackMode, trackCues, activeCues, listeners>>
  /\ UNCHANGED pollVars
  /\ UNCHANGED viewVars

\* div.addEventListener("keydown", ...) on line i of card c.
LineKeydown(c, i, key) ==
  /\ i \in 1..Len(lines[c])
  /\ IF activates(key) THEN jump(c, i) ELSE UNCHANGED audioVars
  /\ UNCHANGED <<loaded, cfg, fmt, trackMode, trackCues, activeCues, listeners>>
  /\ UNCHANGED pollVars
  /\ UNCHANGED viewVars

\* The browser settles a pending play() promise: playback starts.
PlayResolve(c) ==
  /\ playState[c] = "requested"
  /\ playState' = [playState EXCEPT ![c] = "playing"]
  /\ UNCHANGED <<loaded, cfg, fmt, trackMode, trackCues, activeCues, listeners,
                 currentTime, errors>>
  /\ UNCHANGED pollVars
  /\ UNCHANGED viewVars

\* The browser rejects a pending play() promise (autoplay blocked).
PlayReject(c) ==
  /\ playState[c] = "requested"
  /\ playState' = [playState EXCEPT ![c] = "rejected"]
  /\ errors' = [errors EXCEPT ![c] = onPlayRejected(@)]
  /\ UNCHANGED <<loaded, cfg, fmt, trackMode, trackCues, activeCues, listeners,
                 currentTime>>
  /\ UNCHANGED pollVars
  /\ UNCHANGED viewVars

\* The user pauses playback with the native controls.
Pause(c) ==
  /\ playState[c] = "playing"
  /\ playState' = [playState EXCEPT ![c] = "paused"]
  /\ UNCHANGED <<loaded, cfg, fmt, trackMode, trackCues, activeCues, listeners,
                 currentTime, errors>>
  /\ UNCHANGED pollVars
  /\ UNCHANGED viewVars

(**************************** transport buttons ****************************)
\* Math.max(0, audio.currentTime - 5)
jumpBack(t) == Max(0, t - jumpStep)

\* Math.min(audio.duration || Infinity, audio.currentTime + 5): a duration
\* of NaN or 0 is falsy, and then the minimum is taken with Infinity.
jumpForward(t, dur) ==
  IF dur = NaN \/ dur = 0 THEN t + jumpStep ELSE Min(dur, t + jumpStep)

\* The click listener of a button[data-action] of card c.
buttonClick(c, action) ==
  IF action = "jump-back" THEN jumpBack(currentTime[c])
  ELSE IF action = "jump-forward" THEN jumpForward(currentTime[c], cfg[c].duration)
  ELSE currentTime[c]

\* The user presses a button[data-action]; its listener runs if setupCard
\* registered it.
ButtonClick(c, action) ==
  /\ loaded
  /\ cfg[c].audio
  /\ action = "jump-forward" => currentTime[c] + jumpStep <= MaxTime
  /\ currentTime' = [currentTime EXCEPT ![c] =
       IF "button" \in listeners[c] THEN buttonClick(c, action) ELSE @]
  /\ UNCHANGED <<loaded, cfg, fmt, trackMode, trackCues, activeCues, listeners,
                 playState, errors>>
  /\ UNCHANGED pollVars
  /\ UNCHANGED viewVars

\* The user seeks with the audio element's native controls: the position
\* the button handlers next read from audio.currentTime.
SeekStops == {0, 250, 1000}
Seek(c, t) ==
  /\ cfg[c].audio
  /\ t \in SeekStops
  /\ currentTime' = [currentTime EXCEPT ![c] = t]
  /\ UNCHANGED <<loaded, cfg, fmt, trackMode, trackCues, activeCues, listeners,
                 playState, errors>>
  /\ UNCHANGED pollVars
  /\ UNCHANGED viewVars

(***************************** specifications ******************************)
InitPage(pages) ==
  /\ loaded = FALSE
  /\ cfg \in pages
  /\ fmt = NotCalled
  /\ content = [c \in Cards |-> Untouched]
  /\ trackMode = [c \in Cards |-> IF cfg[c].audio /\ cfg[c].track THEN "disabled" ELSE "none"]
  /\ trackCues = [c \in Cards |-> <<>>]
  /\ activeCues = [c \in Cards |-> <<>>]
  /\ lines = [c \in Cards |-> <<>>]
  /\ cueToLine = [c \in Cards |-> EmptyMap]
  /\ attempts = [c \in Cards |-> 0]
  /\ timer = [c \in Cards |-> "none"]
  /\ listeners = [c \in Cards |-> {}]
  /\ detailsOpen = [c \in Cards |-> cfg[c].open]
  /\ autoScroll = [c \in Cards |-> cfg[c].checked]
  /\ scrollTop = [c \in Cards |-> 0]
  /\ currentTime = [c \in Cards |-> 0]
  /\ playState = [c \in Cards |-> "paused"]
  /\ errors = [c \in Cards |-> 0]
  /\ renderLog = [c \in Cards |-> <<>>]
  /\ sawCuesAt = [c \in Cards |-> 0]

\* Loading the cues: the polling timer and the caption engine.
Loader ==
  \/ DOMContentLoaded
  \/ \E c \in Cards : Tick(c)
  \/ \E c \in Cards : \E n \in 1..MaxCues : CueArrive(c, n)

\* Spec: the loader, the highlighter and the view.  The handlers of the
\* audio transport read and write only audioVars, which no action of Spec
\* reads; they are specified in SpecAudio.
Init == InitPage({Page(d, k, 1000) : d \in BOOLEAN, k \in BOOLEAN})

Next ==
  \/ DOMContentLoaded
  \/ \E c \in Cards : Tick(c)
  \/ \E c \in Cards : \E n \in 1..MaxCues : CueArrive(c, n)
  \/ \E c \in Cards : \E ac \in ActiveLists(trackCues[c]) : CueChange(c, ac)
  \/ \E c \in Cards : ToggleDetails(c)
  \/ \E c \in Cards : ToggleAutoScroll(c)
  \/ \E c \in Cards : \E s \in ScrollStops(c, lines[c]) : UserScroll(c, s)

Spec == Init /\ [][Next]_vars

\* The same with the scheduling the browser guarantees: DOMContentLoaded is
\* dispatched, and a running interval timer keeps firing.
FairSpec ==
  Spec /\ WF_vars(DOMContentLoaded) /\ \A c \in Cards : WF_vars(Tick(c))

\* SpecAudio: the loader and the audio transport (line activation, the
\* play() promise, the jump buttons), for every kind of duration.
InitAudio == InitPage({Page(TRUE, TRUE, dur) : dur \in Durations})

NextAudio ==
  \/ DOMContentLoaded
  \/ \E c \in Cards : Tick(c)
  \/ \E c \in Cards : \E n \in 1..MaxCues : CueArrive(c, n)
  \/ \E c \in Cards : \E i \in 1..MaxCues : LineClick(c, i)
  \/ \E c \in Cards : \E i \in 1..MaxCues : \E key \in Keys : LineKeydown(c, i, key)
  \/ \E c \in Cards : PlayResolve(c)
  \/ \E c \in Cards : PlayReject(c)
  \/ \E c \in Cards : Pause(c)
  \/ \E c \in Cards : \E action \in ButtonActions : ButtonClick(c, action)

SpecAudio == InitAudio /\ [][NextAudio]_vars

(************************* the render pass, step by step *******************)
MaxPasses == 3     \* render passes explored by SpecRender

\* The forEach of renderFromCues from index i on: each cue's line is pushed
\* onto the lines array and entered into the Map.
RECURSIVE appendLines(_, _, _)
appendLines(st, cues, i) ==
  IF i > Len(cues) THEN st
  ELSE LET cue == cues[i]
           pushed == Append(st.lines, Line(cue, i - 1))
           set == [q \in DOMAIN st.cueToLine \cup {cue} |->
                     IF q = cue THEN Len(pushed) ELSE st.cueToLine[q]]
       IN  appendLines([content |-> st.content, lines |-> pushed, cueToLine |-> set],
                       cues, i + 1)

\* Mutant of renderInto: the previous pass is not cleared away.
renderIntoNoClear(prev, cues) ==
  IF Len(cues) = 0
    THEN [content |-> Loading, lines |-> prev.lines, cueToLine |-> prev.cueToLine]
    ELSE appendLines([content |-> Cleared, lines |-> prev.lines,
                      cueToLine |-> prev.cueToLine], cues, 1)

\* renderFromCues() as the statements it runs on the state `prev` a former
\* pass left: clear the container, the lines array and the Map, then either
\* write the placeholder or append one line per cue.
renderInto(prev, cues) ==
  LET cleared == [content |-> Cleared, lines |-> <<>>, cueToLine |-> EmptyMap] IN
  IF Len(cues) = 0
    THEN [cleared EXCEPT !.content = Loading]
    ELSE appendLines(cleared, cues, 1)

\* One call of renderFromCues() on card c, whatever a former pass left.
RenderPass(c) ==
  /\ timer[c] # "none"
  /\ Len(renderLog[c]) < MaxPasses
  /\ LET r == renderInto([content |-> content[c], lines |-> lines[c],
                          cueToLine |-> cueToLine[c]], trackCues[c])
     IN  /\ content' = [content EXCEPT ![c] = r.content]
         /\ lines' = [lines EXCEPT ![c] = r.lines]
         /\ cueToLine' = [cueToLine EXCEPT ![c] = r.cueToLine]
  /\ renderLog' = [renderLog EXCEPT ![c] =
       Append(@, [tick |-> attempts[c], cues |-> trackCues[c]])]
  /\ UNCHANGED <<loaded, cfg, fmt, trackMode, trackCues, activeCues, attempts,
                 timer, listeners, sawCuesAt>>
  /\ UNCHANGED viewVars
  /\ UNCHANGED audioVars

\* The track's cue list changes to the first n cues of the file (cues are
\* added, or removed with removeCue).
SetCues(c, n) ==
  /\ cfg[c].audio /\ cfg[c].track
  /\ n # Len(trackCues[c])
  /\ trackCues' = [trackCues EXCEPT ![c] = SubSeq(VttCues, 1, n)]
  /\ activeCues' = [activeCues EXCEPT ![c] = <<>>]
  /\ UNCHANGED <<loaded, cfg, fmt, trackMode, listeners>>
  /\ UNCHANGED pollVars
  /\ UNCHANGED viewVars
  /\ UNCHANGED audioVars

\* SpecRender: renderFromCues as a function of what it finds: it is called
\* again and again, on the same and on changed cue lists, with lines marked
\* active in between.
NextRender ==
  \/ DOMContentLoaded
  \/ \E c \in Cards : RenderPass(c)
  \/ \E c \in Cards : \E n \in 0..MaxCues : SetCues(c, n)
  \/ \E c \in Cards : \E ac \in ActiveLists(trackCues[c]) : CueChange(c, ac)

InitRender == InitPage({Page(TRUE, TRUE, 1000)})

SpecRender == InitRender /\ [][NextRender]_vars

\* SpecFormat: formatTime as a function of its argument.
InitFormat == InitPage({Page(TRUE, TRUE, 1000)})

NextFormat == \E x \in FormatInputs : Format(x)

SpecFormat == InitFormat /\ [][NextFormat]_vars

\* SpecScroll: the loader, the highlighter and the view on a page whose
\* wrapper and checkbox exist, for both layouts of the transcript.
InitScroll == InitPage({PageLaidOut(pad, 1000) : pad \in {Padded, Flush}})

NextScroll ==
  \/ DOMContentLoaded
  \/ \E c \in Cards : Tick(c)
  \/ \E c \in Cards : \E n \in 1..MaxCues : CueArrive(c, n)
  \/ \E c \in Cards : \E ac \in ActiveLists(trackCues[c]) : CueChange(c, ac)
  \/ \E c \in Cards : ToggleDetails(c)
  \/ \E c \in Cards : ToggleAutoScroll(c)
  \/ \E c \in Cards : \E s \in ScrollStops(c, lines[c]) : UserScroll(c, s)

SpecScroll == InitScroll /\ [][NextScroll]_vars

\* SpecEvents: the loader together with the events of the track and of the
\* user that reach the script's listeners: cue activation, a click on a
\* line, a press of a transport button.
InitEvents == InitPage({Page(TRUE, TRUE, 1000)})

NextEvents ==
  \/ DOMContentLoaded
  \/ \E c \in Cards : Tick(c)
  \/ \E c \in Cards : \E n \in 1..MaxCues : CueArrive(c, n)
  \/ \E c \in Cards : \E ac \in ActiveLists(trackCues[c]) : CueChange(c, ac)
  \/ \E c \in Cards : \E i \in 1..MaxCues : LineClick(c, i)
  \/ \E c \in Cards : \E action \in ButtonActions : ButtonClick(c, action)

SpecEvents == InitEvents /\ [][NextEvents]_vars

\* SpecCards: two complete cards side by side, each with its timer, its
\* track and its listeners.  A card's cue data arrives as a whole, before
\* its first tick or after its polling window, and its track reports at
\* most one active cue.
InitCards == InitPage({PageTwin})

NextCards ==
  \/ DOMContentLoaded
  \/ \E c \in Cards : Tick(c)
  \/ \E c \in Cards : attempts[c] \in {0, maxAttempts} /\ CueArrive(c, MaxCues)
  \/ \E c \in Cards : CueChange(c, <<>>)
  \/ \E c \in Cards : \E i \in 1..Len(trackCues[c]) : CueChange(c, <<trackCues[c][i]>>)
  \/ \E c \in Cards : \E i \in 1..MaxCues : LineClick(c, i)
  \/ \E c \in Cards : \E action \in ButtonActions : ButtonClick(c, action)

SpecCards == InitCards /\ [][NextCards]_vars

\* SpecButtons: the loader, the native seek and the transport buttons, on
\* the page with a complete card and a card without caption track.
InitButtons == InitPage({Page(TRUE, TRUE, 1000)})

NextButtons ==
  \/ DOMContentLoaded
  \/ \E c \in Cards : Tick(c)
  \/ \E c \in Cards : \E n \in 1..MaxCues : CueArrive(c, n)
  \/ \E c \in Cards : \E t \in SeekStops : Seek(c, t)
  \/ \E c \in Cards : \E action \in ButtonActions : ButtonClick(c, action)

SpecButtons == InitButtons /\ [][NextButtons]_vars

\* SpecSetup: the same events on the pages whose second card lacks a
\* required element.
InitSetup ==
  InitPage({PageMissing(m[1], m[2]) :
              m \in {<<FALSE, TRUE>>, <<TRUE, FALSE>>, <<FALSE, FALSE>>}})

SpecSetup == InitSetup /\ [][NextCards]_vars

(********************************* claims **********************************)
HasTrack(c) == cfg[c].audio /\ cfg[c].transcript /\ cfg[c].track
ActiveSet(ls) == {i \in 1..Len(ls) : ls[i].active}
Wired(c, listener) == listener \in listeners[c]

\* C1: in every reachable state, on every card, at most one rendered line
\* carries the active marking.
C1_AtMostOneActive ==
  \A c \in Cards : Cardinality(ActiveSet(lines[c])) <= 1

\* C1 witness: two cues are active at once, three lines are rendered and
\* exactly one of them carries the marking.
C1_Witness ==
  /\ Len(activeCues[1]) = 2
  /\ Len(lines[1]) = 3
  /\ Cardinality(ActiveSet(lines[1])) = 1

\* C2: a cue-activation event that reports no active cue leaves no line
\* marked active and leaves the scroll position unchanged.
C2_EmptyActivationClears ==
  [][\A c \in Cards :
       (Wired(c, "cuechange") /\ CueChange(c, <<>>))
         => /\ ActiveSet(lines'[c]) = {}
            /\ scrollTop'[c] = scrollTop[c]]_vars

\* C3: a cue-activation event that reports one or more active cues leaves
\* marked exactly the line of the first of them if the lookup has an entry
\* for it, and no line otherwise, whatever the state of the wrapper and of
\* the auto-scroll checkbox.
C3_FirstActiveCueOnly ==
  [][\A c \in Cards :
       LET ac == activeCues'[c] IN
       (Wired(c, "cuechange") /\ Len(ac) > 0 /\ CueChange(c, ac))
         => ActiveSet(lines'[c]) =
              IF ac[1] \in DOMAIN cueToLine[c]
                THEN {i \in 1..Len(lines[c]) : lines[c][i].cue = ac[1]}
                ELSE {}]_vars

\* C3 witness: two cues are active, auto-scroll applies, and the line of
\* the first of the two (and only it) is marked.
C3_Witness ==
  /\ Len(activeCues[1]) = 2
  /\ doScroll(1)
  /\ activeCues[1][1] \in DOMAIN cueToLine[1]
  /\ ActiveSet(lines[1]) = {cueToLine[1][activeCues[1][1]]}
  /\ ~lines[1][cueToLine[1][activeCues[1][2]]].active

\* C3 witness of the other branch is the state where the first active cue
\* arrived after the render pass; C3_NoEntry describes it.
C3_NoEntry ==
  /\ Len(activeCues[1]) > 0
  /\ Len(lines[1]) > 0
  /\ activeCues[1][1] \notin DOMAIN cueToLine[1]
  /\ ActiveSet(lines[1]) = {}

\* C4: a card with a caption track gets exactly one render pass, on the
\* first tick that finds cue data or else on the 20th tick, and none before
\* or after; a card without one gets none.
C4_ExactlyOneRender ==
  \A c \in Cards :
    LET ticks == [i \in 1..Len(renderLog[c]) |-> renderLog[c][i].tick] IN
    IF ~HasTrack(c) THEN ticks = <<>>
    ELSE IF sawCuesAt[c] # 0 THEN ticks = <<sawCuesAt[c]>>
    ELSE IF attempts[c] >= 20 THEN ticks = <<20>>
    ELSE ticks = <<>>

\* C4 witness: cue data first seen on the 7th tick, rendered then and only
\* then, and the timer cleared.
C4_Witness ==
  /\ sawCuesAt[1] = 7
  /\ Len(renderLog[1]) = 1
  /\ renderLog[1][1].tick = 7
  /\ timer[1] = "cleared"

\* C5: the attempts counter never exceeds 20; under fair scheduling the
\* timer of every card with a caption track is eventually cleared; and once
\* it is cleared it stays cleared and no further tick counts an attempt.
C5_PollingStops ==
  /\ [](\A c \in Cards : attempts[c] <= 20)
  /\ \A c \in Cards : <>(~HasTrack(c) \/ timer[c] = "cleared")
  /\ [][\A c \in Cards :
          timer[c] = "cleared"
            => timer'[c] = "cleared" /\ attempts'[c] = attempts[c]]_vars

\* C5 witness: the timer was cleared on the 20th tick.
C5_Witness ==
  /\ timer[1] = "cleared"
  /\ attempts[1] = 20

\* C6: a cue-activation event changes the scroll position only if the
\* wrapper exists and is expanded and the checkbox exists and is checked.
C6_ScrollOnlyWhenEnabled ==
  [][\A c \in Cards :
       (scrollTop'[c] # scrollTop[c] /\ CueChange(c, activeCues'[c]))
         => /\ cfg[c].details /\ detailsOpen[c]
            /\ cfg[c].checkbox /\ autoScroll[c]]_vars

\* C6 witness: an offset only auto-scroll produces (the top of the third
\* line brought to the padded top), with the wrapper open and the box ticked.
C6_Witness ==
  /\ doScroll(1)
  /\ Len(lines[1]) = 3
  /\ lines[1][3].active
  /\ scrollTop[1] = 60
  /\ scrollTop[1] \notin ScrollStops(1, lines[1])

\* C6: the other case: the marked line lies outside the padded window
\* while auto-scroll does not apply.
C6_NotScrolled ==
  /\ ~doScroll(1)
  /\ Len(lines[1]) = 3
  /\ lines[1][3].active
  /\ scrollTop[1] = 0

\* The cue list the last render pass of card c read, and the start time of
\* the cue its i-th line was built from.
RenderedCues(c) == renderLog[c][Len(renderLog[c])].cues
LineStart(c, i) == startTime(RenderedCues(c)[i])

\* C7: a click, or a keydown of Enter or Space, on the line of a cue with
\* start time T sets the playback position to T + 0.01 and requests
\* playback; a rejected request leaves the position alone and surfaces no
\* error; a keydown of another key changes neither position nor play state.
C7_LineActivationSeeks ==
  [][\A c \in Cards :
       /\ \A i \in 1..Len(lines[c]) :
            /\ (LineClick(c, i) \/ LineKeydown(c, i, "Enter") \/ LineKeydown(c, i, " "))
                 => /\ currentTime'[c] = LineStart(c, i) + 1
                    /\ playState'[c] \in {"requested", "playing"}
            /\ \A key \in Keys \ {"Enter", " "} :
                 LineKeydown(c, i, key)
                   => /\ currentTime'[c] = currentTime[c]
                      /\ playState'[c] = playState[c]
       /\ PlayReject(c)
            => /\ currentTime'[c] = currentTime[c]
               /\ errors'[c] = 0
               /\ playState'[c] # "playing"]_vars

\* C7 witness: the line of the cue starting at 5 s was activated, the
\* resume was rejected, and the position stays at 5.01 s with no error.
C7_Witness ==
  /\ playState[1] = "rejected"
  /\ currentTime[1] = 501
  /\ errors[1] = 0

\* C8: jump-back sets the position to max(0, p - 5); jump-forward sets it
\* to min(D, p + 5) when the duration D is known and to p + 5 when it is
\* unknown; so from a position in [0, D] the position stays in [0, D].
C8_JumpsStayInRange ==
  [][\A c \in Cards :
       LET p == currentTime[c]
           D == cfg[c].duration
       IN  /\ (Wired(c, "button") /\ ButtonClick(c, "jump-back"))
                => /\ currentTime'[c] = Max(0, p - 500)
                   /\ currentTime'[c] >= 0
           /\ (Wired(c, "button") /\ ButtonClick(c, "jump-forward"))
                => /\ currentTime'[c] = IF D = NaN THEN p + 500 ELSE Min(D, p + 500)
                   /\ (D # NaN /\ p >= 0 /\ p <= D) => currentTime'[c] <= D]_vars

\* C9: a card with audio and transcript container but no caption track
\* shows exactly the warning after setup and nothing else ever happens to
\* it: no line, no timer, no listener, no render pass.
C9_NoTrackCardInert ==
  \A c \in Cards :
    (loaded /\ cfg[c].audio /\ cfg[c].transcript /\ ~cfg[c].track)
      => /\ content[c] = Warning
         /\ lines[c] = <<>>
         /\ cueToLine[c] = EmptyMap
         /\ timer[c] = "none"
         /\ attempts[c] = 0
         /\ listeners[c] = {}
         /\ renderLog[c] = <<>>

\* C9 witness: the card without caption track shows the warning and has no
\* timer, while the complete card of the same page has polled, rendered its
\* lines and been played.
C9_Witness ==
  /\ loaded
  /\ cfg[2].audio /\ cfg[2].transcript /\ ~cfg[2].track
  /\ content[2] = Warning
  /\ timer[2] = "none"
  /\ timer[1] = "cleared"
  /\ Len(lines[1]) > 0
  /\ playState[1] = "playing"

\* C10: after a render pass that found cue data, the lines are the cue list
\* it read, in order and one to one: as many lines as cues, the i-th line
\* showing the i-th cue's formatted start time and text, the lookup mapping
\* exactly each cue read to its own line, and nothing else rendered.
C10_LinesProjectCues ==
  \A c \in Cards :
    (renderLog[c] # <<>> /\ RenderedCues(c) # <<>>)
      => LET cues == RenderedCues(c) IN
         /\ content[c] = Cleared
         /\ Len(lines[c]) = Len(cues)
         /\ DOMAIN cueToLine[c] = Range(cues)
         /\ \A i \in 1..Len(cues) :
              /\ lines[c][i].time = formatTime(startTime(cues[i]))
              /\ lines[c][i].text = text(cues[i])
              /\ lines[c][i].idx = i - 1
              /\ cueToLine[c][cues[i]] = i

\* C10 witness: a pass rendered two cues, a third cue arrived later and
\* has neither a line nor a lookup entry.
C10_Witness ==
  /\ Len(renderLog[1]) = 1
  /\ Len(RenderedCues(1)) = 2
  /\ Len(lines[1]) = 2
  /\ Len(trackCues[1]) = 3
  /\ lines[1][2].time = <<"0", "0", ":", "0", "5">>

\* What the lines of a transcript show: timestamp and text, in order.
Shown(ls) == [i \in 1..Len(ls) |-> <<ls[i].time, ls[i].text>>]

\* C11: a render pass run on the cue list the previous pass read leaves the
\* same lines as that pass left: same count, order, timestamps and text,
\* the same container content, none duplicated or left over.
C11_RenderIdempotent ==
  [][\A c \in Cards :
       (renderLog[c] # <<>> /\ RenderedCues(c) = trackCues[c] /\ RenderPass(c))
         => /\ Shown(lines'[c]) = Shown(lines[c])
            /\ content'[c] = content[c]
            /\ DOMAIN cueToLine'[c] = DOMAIN cueToLine[c]
            /\ \A q \in DOMAIN cueToLine[c] : cueToLine'[c][q] = cueToLine[c][q]]_vars

\* C11 witness: two passes in a row over the same three cues, three lines.
C11_Witness ==
  /\ Len(renderLog[1]) = 2
  /\ renderLog[1][1].cues = renderLog[1][2].cues
  /\ Len(renderLog[1][2].cues) = 3
  /\ Len(lines[1]) = 3

\* The number a string of decimal digits denotes (-1 if it is no such string).
DigitValue(ch) == IF \E d \in 0..9 : Digit[d + 1] = ch
                    THEN CHOOSE d \in 0..9 : Digit[d + 1] = ch
                    ELSE -1
RECURSIVE Decimal(_)
Decimal(str) ==
  IF Len(str) = 0 THEN -1
  ELSE IF DigitValue(str[Len(str)]) = -1 THEN -1
  ELSE IF Len(str) = 1 THEN DigitValue(str[1])
  ELSE LET hi == Decimal(SubSeq(str, 1, Len(str) - 1)) IN
       IF hi = -1 THEN -1 ELSE 10 * hi + DigitValue(str[Len(str)])

\* The result of a call reads minutes:seconds for the whole seconds `secs`:
\* the seconds field has two digits, the minutes field at least two and no
\* more than floor(secs / 60) needs.
ReadsAs(result, secs) ==
  /\ Len(result) >= 5
  /\ result[Len(result) - 2] = ":"
  /\ LET mm == SubSeq(result, 1, Len(result) - 3)
         ss == SubSeq(result, Len(result) - 1, Len(result))
     IN  /\ Decimal(mm) = secs \div 60
         /\ Decimal(ss) = secs % 60
         /\ Len(mm) = 2 \/ (Len(mm) > 2 /\ mm[1] # "0")

Called == fmt # NotCalled
WholeSeconds(x) == IF x.kind = "number" /\ x.cs >= 0 THEN x.cs \div 100 ELSE 0

\* C12 as stated: the result of formatTime reads floor(s / 60) and
\* floor(s mod 60), zero-padded, for s >= 0, and 00:00 for a negative or
\* missing s; and it always has five characters, two digits, colon, two digits.
C12_AlwaysMMSS ==
  Called => /\ ReadsAs(fmt.result, WholeSeconds(fmt.arg))
            /\ Len(fmt.result) = 5

\* C12 amended: the result reads floor(s / 60) and floor(s mod 60), the
\* seconds zero-padded to two digits and the minutes to at least two; it has
\* the shape two digits, colon, two digits exactly when s is below 6000
\* seconds (this includes negative and missing s, which give 00:00).
C12_MinutesNeverTruncated ==
  Called => /\ ReadsAs(fmt.result, WholeSeconds(fmt.arg))
            /\ Len(fmt.result) = 5 <=> WholeSeconds(fmt.arg) < 6000
            /\ (fmt.arg.kind # "number" \/ fmt.arg.cs < 0)
                 => fmt.result = <<"0", "0", ":", "0", "0">>

\* C12 witness: formatTime called with 100 minutes or more; the result has
\* a minutes field of three digits.
C12_Witness ==
  /\ Called
  /\ fmt.arg.kind = "number"
  /\ fmt.arg.cs >= 600000
  /\ Len(fmt.result) = 6

\* C12: the documented example, formatTime(125.7) = "02:05".
C12_Example ==
  /\ fmt.arg = Number(12570)
  /\ fmt.result = <<"0", "2", ":", "0", "5">>

\* The container edges moved in by the paddings, the index of the line an
\* event on card c activates, and that line's rectangle before the event.
windowTop == parentRect.top + 20
windowBottom == parentRect.bottom - 30
ScrollApplies(c) ==
  /\ CueChange(c, activeCues'[c])
  /\ cfg[c].details /\ detailsOpen[c]
  /\ cfg[c].checkbox /\ autoScroll[c]
  /\ activeCues'[c] # <<>>
  /\ activeCues'[c][1] \in DOMAIN cueToLine[c]
ActivatedLine(c) == cueToLine[c][activeCues'[c][1]]
RectBefore(c) == lineRect(c, lines[c], ActivatedLine(c), scrollTop[c])
RectAfter(c) == lineRect(c, lines'[c], ActivatedLine(c), scrollTop'[c])

\* The offset the three cases of the auto-scroll ask for.
Requested(c) ==
  IF RectBefore(c).top < windowTop
    THEN scrollTop[c] - (windowTop - RectBefore(c).top)
  ELSE IF RectBefore(c).bottom > windowBottom
    THEN scrollTop[c] + (RectBefore(c).bottom - windowBottom)
  ELSE scrollTop[c]

\* C13 as stated: when auto-scroll applies, the scroll offset moves by
\* exactly the top deficit, else by exactly the bottom deficit, else not at
\* all, the top case first.
C13_ExactDeltas ==
  [][\A c \in Cards : ScrollApplies(c) => scrollTop'[c] = Requested(c)]_vars

\* C13, amended: when auto-scroll applies, the scroll offset becomes the
\* requested offset (top case first) limited to the scrollable range: the
\* requested offset itself when it lies in 0..maxScroll, else the nearer end.
C13_DeltasWithinRange ==
  [][\A c \in Cards :
       ScrollApplies(c) =>
         LET last == maxScroll(c, lines[c]) IN
         /\ (Requested(c) \in 0..last) => scrollTop'[c] = Requested(c)
         /\ Requested(c) < 0 => scrollTop'[c] = 0
         /\ Requested(c) > last => scrollTop'[c] = last]_vars

\* C13 witness: the tall third line active at the offset that puts its top
\* on the padded top; only the top case produces this offset, from offsets
\* where the line's bottom edge is below the padded bottom as well.
C13_Witness ==
  /\ cfg[1].inset = Padded
  /\ doScroll(1)
  /\ Len(lines[1]) = 3
  /\ lines[1][3].active
  /\ scrollTop[1] = 60
  /\ lineRect(1, lines[1], 3, scrollTop[1]).top = windowTop
  /\ lineRect(1, lines[1], 3, scrollTop[1]).bottom > windowBottom

\* C14 as stated: after every cue-activation event for which auto-scroll
\* applies the active line lies within the padded window.
C14_ActiveLineInWindow ==
  [][\A c \in Cards :
       ScrollApplies(c) => /\ RectAfter(c).top >= windowTop
                           /\ RectAfter(c).bottom <= windowBottom]_vars

\* Some offset of the scrollable range places line i of card c within the
\* padded window.
Fits(c, i) ==
  \E s \in 0..maxScroll(c, lines[c]) :
    /\ lineRect(c, lines[c], i, s).top >= windowTop
    /\ lineRect(c, lines[c], i, s).bottom <= windowBottom

\* C14, amended: after a cue-activation event for which auto-scroll applies
\* the active line lies within the padded window whenever some offset of
\* the scrollable range places it there.
C14_InWindowWhenItFits ==
  [][\A c \in Cards :
       (ScrollApplies(c) /\ Fits(c, ActivatedLine(c)))
         => /\ RectAfter(c).top >= windowTop
            /\ RectAfter(c).bottom <= windowBottom]_vars

\* C14 witness: in the flush layout the second line is active at an offset
\* only auto-scroll produces, its bottom edge on the padded bottom.
C14_Witness ==
  /\ cfg[1].inset = Flush
  /\ doScroll(1)
  /\ Len(lines[1]) = 3
  /\ lines[1][2].active
  /\ scrollTop[1] = 10
  /\ scrollTop[1] \notin ScrollStops(1, lines[1])
  /\ lineRect(1, lines[1], 2, scrollTop[1]).bottom = windowBottom
  /\ lineRect(1, lines[1], 2, scrollTop[1]).top >= windowTop
\* C15: the render pass shows the still-loading placeholder with no lines
\* exactly if it ran on the 20th tick with the cue data still empty; if the
\* cue data was non-empty at the tick that ran it, the 20th included, it
\* shows one line per cue, in order, and no placeholder.
C15_PlaceholderIffStillEmpty ==
  \A c \in Cards :
    renderLog[c] # <<>> =>
      LET pass == renderLog[c][1] IN
      /\ (content[c] = Loading /\ lines[c] = <<>>)
            <=> (pass.cues = <<>> /\ pass.tick = 20)
      /\ pass.cues # <<>> =>
            /\ content[c] # Loading
            /\ Len(lines[c]) = Len(pass.cues)
            /\ \A i \in 1..Len(pass.cues) : lines[c][i].cue = pass.cues[i]

\* C15 witness: the cue data first became non-empty at the 20th tick and
\* the pass rendered its lines.
C15_Witness ==
  /\ Len(renderLog[1]) = 1
  /\ renderLog[1][1].tick = 20
  /\ renderLog[1][1].cues # <<>>
  /\ sawCuesAt[1] = 20
  /\ content[1] = Cleared
  /\ Len(lines[1]) = Len(trackCues[1])

\* C15: the other case: the 20th tick found no cue data and the pass
\* shows the placeholder.
C15_Placeholder ==
  /\ Len(renderLog[1]) = 1
  /\ renderLog[1][1].tick = 20
  /\ renderLog[1][1].cues = <<>>
  /\ content[1] = Loading
  /\ lines[1] = <<>>
\* The polling window of card c ended with the cue data still empty.
EndedEmpty(c) == renderLog[c] # <<>> /\ renderLog[c][1].cues = <<>>

\* C16: once the polling window has ended with empty cue data, whatever
\* cues arrive and whatever cue-activation events, clicks and button
\* presses follow, there is no second render pass, the transcript shows
\* the placeholder, the line list and the lookup stay empty and no line is
\* marked active.
C16_NoRenderAfterWindow ==
  \A c \in Cards :
    EndedEmpty(c) =>
      /\ Len(renderLog[c]) = 1
      /\ timer[c] = "cleared"
      /\ content[c] = Loading
      /\ lines[c] = <<>>
      /\ DOMAIN cueToLine[c] = {}
      /\ ActiveSet(lines[c]) = {}

\* C16 witness: after the window ended empty the cues arrived, one of them
\* is active and a transport button moved the position; the placeholder is
\* still shown.
C16_Witness ==
  /\ EndedEmpty(1)
  /\ Len(trackCues[1]) = MaxCues
  /\ activeCues[1] # <<>>
  /\ currentTime[1] = jumpStep
  /\ content[1] = Loading
\* An event of card c: a poll tick, a cue arrival, a cue activation, a line
\* activation or a press of a jump button; and what the claim says it
\* leaves alone on another card o.
EventOn(c) ==
  \/ Tick(c)
  \/ \E n \in 1..MaxCues : CueArrive(c, n)
  \/ CueChange(c, activeCues'[c])
  \/ \E i \in 1..MaxCues : LineClick(c, i)
  \/ \E action \in ButtonActions : ButtonClick(c, action)
LeftAlone(o) ==
  /\ lines'[o] = lines[o]
  /\ cueToLine'[o] = cueToLine[o]
  /\ ActiveSet(lines'[o]) = ActiveSet(lines[o])
  /\ attempts'[o] = attempts[o]
  /\ scrollTop'[o] = scrollTop[o]
  /\ currentTime'[o] = currentTime[o]

\* C17: with two or more cards on the page, an event on one card leaves
\* every other card's rendered lines, cue-to-line lookup, active line,
\* attempts counter, scroll position and playback position unchanged.
C17_CardsIsolated ==
  [][\A c \in Cards : EventOn(c) => \A o \in Cards \ {c} : LeftAlone(o)]_vars

\* C17 witness: both cards are rendered and each has been driven on its
\* own: different lines active, different scroll offsets, different
\* playback positions.
C17_Witness ==
  /\ cfg[1].track /\ cfg[2].track
  /\ Len(lines[1]) = MaxCues /\ Len(lines[2]) = MaxCues
  /\ lines[1][1].active /\ lines[2][MaxCues].active
  /\ scrollTop[1] = 0 /\ scrollTop[2] > 0
  /\ currentTime[1] = jumpStep /\ currentTime[2] = nudge
  /\ content[3] = Untouched
\* Card c lacks the audio element or the transcript container.
Incomplete(c) == ~cfg[c].audio \/ ~cfg[c].transcript

\* C18: a card that lacks the audio element or the transcript container is
\* skipped: its content stays as delivered, its track keeps its mode, it
\* has no timer, no listener, no line and no render pass, and its playback
\* position is never moved; and once the page is loaded the other cards
\* are set up: the complete ones have their track hidden, their timer
\* started and their listeners registered, the ones without a track show
\* the warning.
C18_IncompleteCardSkipped ==
  \A c \in Cards :
    /\ Incomplete(c) =>
         /\ content[c] = Untouched
         /\ trackMode[c] = IF cfg[c].audio /\ cfg[c].track THEN "disabled" ELSE "none"
         /\ timer[c] = "none"
         /\ attempts[c] = 0
         /\ listeners[c] = {}
         /\ lines[c] = <<>>
         /\ renderLog[c] = <<>>
         /\ currentTime[c] = 0
    /\ (loaded /\ ~Incomplete(c)) =>
         IF cfg[c].track
           THEN /\ trackMode[c] = "hidden"
                /\ timer[c] \in {"running", "cleared"}
                /\ listeners[c] = {"cuechange", "button"}
           ELSE content[c] = Warning

\* C18 witness: the second card has an audio element with a track but no
\* transcript container; its cues arrived and one is active, yet its track
\* mode is as delivered, while the first card rendered and marked a line.
C18_Witness ==
  /\ loaded
  /\ cfg[2].audio /\ ~cfg[2].transcript
  /\ trackCues[2] # <<>> /\ activeCues[2] # <<>>
  /\ trackMode[2] = "disabled"
  /\ content[2] = Untouched
  /\ Len(lines[1]) = MaxCues /\ lines[1][1].active
  /\ content[3] = Untouched

\* C18: the other case: the second card has a transcript container but no
\* audio element, and the first card is set up.
C18_NoAudio ==
  /\ loaded
  /\ ~cfg[2].audio /\ cfg[2].transcript
  /\ content[2] = Untouched
  /\ timer[1] = "cleared"
\* The step is the render pass of card c.
Renders(c) == Tick(c) /\ Len(renderLog'[c]) > Len(renderLog[c])

\* C19: a cue-activation event before the render pass marks no line; the
\* render pass leaves no line marked, whatever cue the track reports
\* active; and a line becomes marked only in a cue-activation event.
C19_NothingMarkedUntilNextEvent ==
  [][\A c \in Cards :
       /\ (CueChange(c, activeCues'[c]) /\ renderLog[c] = <<>>)
            => ActiveSet(lines'[c]) = {}
       /\ Renders(c) => ActiveSet(lines'[c]) = {}
       /\ (ActiveSet(lines'[c]) \ ActiveSet(lines[c]) # {})
            => /\ CueChange(c, activeCues'[c])
               /\ renderLog[c] # <<>>]_vars

\* C19 witness: the lines are rendered, the track reports an active cue
\* (since before the render pass), and no line is marked.
C19_Witness ==
  /\ Len(renderLog[1]) = 1
  /\ Len(lines[1]) = MaxCues
  /\ activeCues[1] # <<>>
  /\ activeCues[1][1] \in DOMAIN cueToLine[1]
  /\ ActiveSet(lines[1]) = {}
\* Card c has audio and transcript container but no caption track.
NoTrack(c) == cfg[c].audio /\ cfg[c].transcript /\ ~cfg[c].track

\* C20: on a card with no caption track no button listener is ever
\* registered, and a press of jump-back or jump-forward leaves the playback
\* position where it was.
C20_ButtonsNotWiredWithoutTrack ==
  /\ [](\A c \in Cards : NoTrack(c) => "button" \notin listeners[c])
  /\ [][\A c \in Cards :
          (NoTrack(c) /\ \E action \in {"jump-back", "jump-forward"} :
                           ButtonClick(c, action))
            => currentTime'[c] = currentTime[c]]_vars

\* C20 witness: after setup the card without track shows the warning and
\* its position is where the user's seek put it, a position from which both
\* jumps would move it, while the buttons of the complete card have moved
\* that card's position.
C20_Witness ==
  /\ loaded
  /\ NoTrack(2)
  /\ content[2] = Warning
  /\ currentTime[2] = 250
  /\ jumpBack(currentTime[2]) # currentTime[2]
  /\ jumpForward(currentTime[2], cfg[2].duration) # currentTime[2]
  /\ currentTime[1] = 750
====
